---- MODULE Spec2Model ----
(***************************************************************************)
(* Model of the TheRawKing backend (src/main.py, src/schemas.py): the      *)
(* checkout orchestrator (create_checkout_session), the order ledger       *)
(* (db["order"]) and the webhook reconciler (stripe_webhook).              *)
(*                                                                         *)
(* Money.  Product.price is a Python float holding a decimal amount.  The  *)
(* model stores a price as the integer number of cents c of the decimal    *)
(* literal c/100 and keeps the float arithmetic where it decides a result: *)
(* PriceInCents(c) is int(float(c/100) * 100) computed as IEEE-754 binary64*)
(* computes it.  Order.total is the float sum of price * quantity; its     *)
(* relative error is below 2^-50 for the carts considered, so the model    *)
(* stores the total as the cent amount that float denotes.                 *)
(*                                                                         *)
(* Ids.  Gateway session ids and payment-intent ids are positive integers; *)
(* None (and the empty string, equally falsy in Python) is 0.  The         *)
(* customer email, optional item sizes, product images and the timestamps  *)
(* are passed through by the code without influencing any decision and are *)
(* left out.                                                               *)
(***************************************************************************)
EXTENDS Integers, Sequences, FiniteSets, TLC

\* ---------------------------------------------------------------- bounds
MaxSessions == 2      \* Gateway sessions created in one behaviour
MaxUnits == 2         \* units per checkout request, summed over its lines
MaxRequests == 2      \* subscribe_email calls in flight at once
MaxSubscribers == 3   \* documents db["email_subscriber"] grows to
MaxDocs == 101        \* documents db["product"] holds when it is listed

None == 0

\* ---------------------------------------------------------------- state
VARIABLES
    STRIPE_SECRET_KEY,      \* BOOLEAN: the environment variable is set
    STRIPE_WEBHOOK_SECRET,  \* BOOLEAN: the environment variable is set
    db,                     \* BOOLEAN: database.db is not None
    product,                \* db["product"]: product id -> document, or NoDoc
    order,                  \* db["order"]: sequence of Order documents
    stripeSessions,         \* sessions the Gateway has created (Session.create)
    checkout,               \* the create_checkout_session call in flight
    last,                   \* the last request answered and its HTTP response
    email_subscriber,       \* db["email_subscriber"]: sequence of documents
    subscribe,              \* the subscribe_email calls: position and response
    listing                 \* the last list_products request and its response

vars == <<STRIPE_SECRET_KEY, STRIPE_WEBHOOK_SECRET, db, product, order,
          stripeSessions, checkout, last, email_subscriber, subscribe, listing>>

\* what no checkout or webhook step writes
config == <<STRIPE_SECRET_KEY, STRIPE_WEBHOOK_SECRET, db, product,
            email_subscriber, subscribe, listing>>

\* what no subscribe_email or list_products step writes
payments == <<STRIPE_SECRET_KEY, STRIPE_WEBHOOK_SECRET, db, order,
              stripeSessions, checkout, last>>

\* ---------------------------------------------------------------- catalog
NoDoc == [title |-> "", price |-> 0, currency |-> "", present |-> FALSE]

RequestIds == {1, 2, 3}       \* ids a cart may name; 1 and 2 are stored, 3 is not

\* MOON_PRODUCTS[0], the seed product of the scenario (45.00 usd), and a
\* second stored product priced 19.99 in another currency.
Catalog ==
    [p \in RequestIds |->
        IF p = 1
        THEN [title |-> "Lunar Phase Tee", price |-> 4500, currency |-> "usd",
              present |-> TRUE]
        ELSE IF p = 2
             THEN [title |-> "Crescent Cap", price |-> 1999, currency |-> "eur",
                   present |-> TRUE]
             ELSE NoDoc]

\* db["product"].find_one({"_id": ObjectId(product_id)}), exceptions -> None
FindProduct(pid) == product[pid]

\* ---------------------------------------------------------------- floats
RECURSIVE Pow2(_)
Pow2(n) == IF n = 0 THEN 1 ELSE 2 * Pow2(n - 1)

RECURSIVE Pow2Mod100(_)
Pow2Mod100(k) == IF k = 0 THEN 1 ELSE (2 * Pow2Mod100(k - 1)) % 100

\* floor(log2(c)) for c >= 1
RECURSIVE Log2(_)
Log2(c) == IF c < 2 THEN 0 ELSE 1 + Log2(c \div 2)

\* floor(log2(c/100)) for c >= 1: the binary exponent of the float c/100
RECURSIVE ExpUp(_, _)
ExpUp(c, e) == IF 100 * Pow2(e + 1) <= c THEN ExpUp(c, e + 1) ELSE e
RECURSIVE ExpDown(_, _)
ExpDown(c, j) == IF c * Pow2(j) < 100 THEN ExpDown(c, j + 1) ELSE j
FloatExp(c) == IF c >= 100 THEN ExpUp(c, 0) ELSE 0 - ExpDown(c, 0)

\* int(float(price) * 100) for the price c/100, c >= 0.
\* x = fl(c/100) has 53 significant bits: with k = 52 - FloatExp(c),
\* c * 2^k = 100*q + r and x = (q or q+1) / 2^k, so 100*x = c + d/2^k with
\* d = -r (rounded down, r < 50) or 100 - r (rounded up).  fl(100*x) falls
\* below c exactly when d < -32 and the spacing of floats just below c is
\* 64 times the spacing at x (or c is a power of two); int() then yields c-1.
PriceInCents(c) ==
    IF c = 0 THEN 0
    ELSE LET e == FloatExp(c)
             k == 52 - e
             r == ((c % 100) * Pow2Mod100(k)) % 100
             E == Log2(c)
             R == Pow2(E - e)
             isPow2 == Pow2(E) = c
         IN IF r >= 33 /\ r <= 49 /\ (R = 64 \/ isPow2) THEN c - 1 ELSE c

\* ---------------------------------------------------------------- requests
\* CreateCheckoutItem: quantity has ge=1, so smaller quantities never reach the handler
CreateCheckoutItem == [product_id : RequestIds, quantity : 1..MaxUnits]

RECURSIVE Units(_)
Units(items) == IF items = <<>> THEN 0 ELSE Head(items).quantity + Units(Tail(items))

\* CreateCheckoutRequest bodies with at least one item and at most MaxUnits
\* units (so at most MaxUnits items)
CreateCheckoutRequest ==
    { [items |-> items] :
        items \in { c \in UNION { [1..n -> CreateCheckoutItem] : n \in 1..MaxUnits } :
                      Units(c) <= MaxUnits } }

\* session.payment_intent as the Gateway returns it: None, or the id of an
\* intent; there are no more intents than sessions, and sessions may share one
PaymentIntents == 0..MaxSessions

GatewayMessages == {"Invalid currency: xxx", "Connection error"}

Idle == [pc |-> "idle", items |-> <<>>, order_items |-> <<>>,
         session |-> [id |-> None, payment_intent |-> None]]

\* last: op and event describe the request, status/detail/ref the response
\* (ref: the session of the returned url, or the product a 404 names);
\* count is 2 when a verified event repeats the one handled just before it
NoEvent == [type |-> "", id |-> None]
NoRequest == [op |-> "none", event |-> NoEvent, count |-> 0,
              status |-> 0, detail |-> "", ref |-> None]
CheckoutResponse(status, detail, ref) ==
    [op |-> "checkout", event |-> NoEvent, count |-> 0,
     status |-> status, detail |-> detail, ref |-> ref]
WebhookResponse(status, detail, event, count) ==
    [op |-> "webhook", event |-> event, count |-> count,
     status |-> status, detail |-> detail, ref |-> None]

\* ---------------------------------------------------------------- checkout
\* (mutation) only the first cart line is looked up
FirstMissing_HeadOnly(items) ==
    IF ~FindProduct(items[1].product_id).present THEN 1 ELSE 0

\* The pricing loop of create_checkout_session --------------------------
\* index of the first cart line whose product is missing, 0 if none
FirstMissing(items) ==
    LET bad == { i \in 1..Len(items) : ~FindProduct(items[i].product_id).present }
    IN IF bad = {} THEN 0 ELSE CHOOSE i \in bad : \A j \in bad : i <= j

LineItem(item) ==
    LET prod == FindProduct(item.product_id)
    IN [currency |-> prod.currency, name |-> prod.title,
        unit_amount |-> PriceInCents(prod.price), quantity |-> item.quantity]

OrderItem(item) ==
    LET prod == FindProduct(item.product_id)
    IN [product_id |-> item.product_id, title |-> prod.title,
        price |-> prod.price, quantity |-> item.quantity]

LineItems(items) == [i \in 1..Len(items) |-> LineItem(items[i])]
OrderItems(items) == [i \in 1..Len(items) |-> OrderItem(items[i])]

\* (mutation) the quantity is left out of the sum
RECURSIVE Total_IgnoresQuantity(_)
Total_IgnoresQuantity(order_items) ==
    IF order_items = <<>> THEN 0
    ELSE Head(order_items).price + Total_IgnoresQuantity(Tail(order_items))

\* total = sum(oi.price * oi.quantity for oi in order_items)
RECURSIVE Total(_)
Total(order_items) ==
    IF order_items = <<>> THEN 0
    ELSE Head(order_items).price * Head(order_items).quantity + Total(Tail(order_items))

\* (mutation) stripe_session_id is not passed and keeps its default, None
NewOrder_NoSessionId(order_items, session) ==
    [items |-> order_items,
     total |-> Total(order_items),
     currency |-> "usd",
     payment_status |-> "pending",
     stripe_session_id |-> None,
     stripe_payment_intent_id |-> session.payment_intent]

\* Order(email=..., items=..., total=..., currency="usd", payment_status="pending", ...)
NewOrder(order_items, session) ==
    [items |-> order_items,
     total |-> Total(order_items),
     currency |-> "usd",
     payment_status |-> "pending",
     stripe_session_id |-> session.id,
     stripe_payment_intent_id |-> session.payment_intent]

\* create_document("order", order)
Insert(orders, doc) == Append(orders, doc)

\* lines 221-225: configuration guards
CheckoutNotConfigured(payload) ==
    /\ checkout.pc = "idle"
    /\ ~STRIPE_SECRET_KEY \/ ~db
    /\ last' = CheckoutResponse(500,
                   IF ~STRIPE_SECRET_KEY
                   THEN "Stripe not configured. Set STRIPE_SECRET_KEY."
                   ELSE "Database not available",
                   None)
    /\ UNCHANGED <<config, order, stripeSessions, checkout>>

\* lines 230-236: a cart line names a product that is not stored
CheckoutNotFound(payload) ==
    /\ checkout.pc = "idle"
    /\ STRIPE_SECRET_KEY /\ db
    /\ FirstMissing(payload.items) # 0
    /\ last' = CheckoutResponse(404, "Product not found",
                   payload.items[FirstMissing(payload.items)].product_id)
    /\ UNCHANGED <<config, order, stripeSessions, checkout>>

\* (mutation) the Order is stored before the Gateway is called
CheckoutGatewayError_StoresOrder(payload, msg) ==
    /\ checkout.pc = "idle"
    /\ STRIPE_SECRET_KEY /\ db
    /\ FirstMissing(payload.items) = 0
    /\ Len(order) < MaxSessions
    /\ order' = Insert(order, NewOrder(OrderItems(payload.items),
                                       [id |-> None, payment_intent |-> None]))
    /\ last' = CheckoutResponse(400, msg, None)
    /\ UNCHANGED <<config, stripeSessions, checkout>>

\* lines 270-281: stripe.checkout.Session.create raises StripeError
CheckoutGatewayError(payload, msg) ==
    /\ checkout.pc = "idle"
    /\ STRIPE_SECRET_KEY /\ db
    /\ FirstMissing(payload.items) = 0
    /\ last' = CheckoutResponse(400, msg, None)
    /\ UNCHANGED <<config, order, stripeSessions, checkout>>

\* lines 227-279: all products found and the Gateway creates the session
CheckoutSessionCreated(payload, pi) ==
    /\ checkout.pc = "idle"
    /\ STRIPE_SECRET_KEY /\ db
    /\ FirstMissing(payload.items) = 0
    /\ Len(stripeSessions) < MaxSessions
    /\ LET session == [id |-> Len(stripeSessions) + 1, payment_intent |-> pi]
       IN /\ stripeSessions' = Append(stripeSessions,
                 [id |-> session.id, payment_intent |-> pi,
                  line_items |-> LineItems(payload.items)])
          /\ checkout' = [pc |-> "created", items |-> payload.items,
                          order_items |-> OrderItems(payload.items),
                          session |-> session]
    /\ UNCHANGED <<config, order, last>>

\* (mutation) no try/except around create_document: a failed write fails the request
CheckoutPersist_WriteErrorIsFatal(stored) ==
    /\ checkout.pc = "created"
    /\ order' = IF stored
                THEN Insert(order, NewOrder(checkout.order_items, checkout.session))
                ELSE order
    /\ last' = IF stored
               THEN CheckoutResponse(200, "url", checkout.session.id)
               ELSE CheckoutResponse(500, "Internal Server Error", None)
    /\ checkout' = Idle
    /\ UNCHANGED <<config, stripeSessions>>

\* lines 283-299: build the Order, store it best-effort, answer with the url
CheckoutPersist(stored) ==
    /\ checkout.pc = "created"
    /\ order' = IF stored
                THEN Insert(order, NewOrder(checkout.order_items, checkout.session))
                ELSE order
    /\ last' = CheckoutResponse(200, "url", checkout.session.id)
    /\ checkout' = Idle
    /\ UNCHANGED <<config, stripeSessions>>

\* ---------------------------------------------------------------- ledger
\* (mutation) the document is replaced instead of updated with $set
UpdateOne_ReplacesDocument(orders, sid, status) ==
    LET hits == { i \in 1..Len(orders) : orders[i].stripe_session_id = sid }
    IN IF hits = {} THEN orders
       ELSE LET first == CHOOSE i \in hits : \A j \in hits : i <= j
            IN [orders EXCEPT ![first] =
                   [items |-> <<>>, total |-> 0, currency |-> "",
                    payment_status |-> status, stripe_session_id |-> None,
                    stripe_payment_intent_id |-> None]]

\* (mutation) the filter is dropped: every document is written
UpdateOne_EveryDocument(orders, sid, status) ==
    [i \in 1..Len(orders) |-> [orders[i] EXCEPT !.payment_status = status]]

\* db["order"].update_one({"stripe_session_id": sid}, {"$set": {...}}):
\* only the first matching document is written
UpdateOne(orders, sid, status) ==
    LET hits == { i \in 1..Len(orders) : orders[i].stripe_session_id = sid }
    IN IF hits = {} THEN orders
       ELSE LET first == CHOOSE i \in hits : \A j \in hits : i <= j
            IN [orders EXCEPT ![first].payment_status = status]

\* (mutation) update_one in place of update_many
UpdateMany_FirstOnly(orders, pid, status) ==
    LET hits == { i \in 1..Len(orders) : orders[i].stripe_payment_intent_id = pid }
    IN IF hits = {} THEN orders
       ELSE LET first == CHOOSE i \in hits : \A j \in hits : i <= j
            IN [orders EXCEPT ![first].payment_status = status]

\* db["order"].update_many({"stripe_payment_intent_id": pid}, {"$set": {...}})
UpdateMany(orders, pid, status) ==
    [i \in 1..Len(orders) |->
        IF orders[i].stripe_payment_intent_id = pid
        THEN [orders[i] EXCEPT !.payment_status = status]
        ELSE orders[i]]

\* ---------------------------------------------------------------- webhook
Completed == "checkout.session.completed"
Failed == "payment_intent.payment_failed"
Refunded == "charge.refunded"      \* a kind the handler does not dispatch on

\* Event envelopes {type, data: {object: {id}}}; ids one past what the Gateway
\* issued stand for objects no Order refers to, None for a missing id
Events ==
    [type : {Completed}, id : 0..(MaxSessions + 1)]
        \cup [type : {Failed}, id : 0..(MaxSessions + 1)]
        \cup [type : {Refunded}, id : {1}]

\* (mutation) the second "if" is an "else": every other kind counts as a failure
HandleEvent_ElseFailed(orders, ev) ==
    IF ev.type = Completed
    THEN IF db /\ ev.id # None THEN UpdateOne(orders, ev.id, "paid") ELSE orders
    ELSE IF db /\ ev.id # None THEN UpdateMany(orders, ev.id, "failed") ELSE orders

\* (mutation) the "and session_id" / "and pid" guards are dropped
HandleEvent_NoIdGuard(orders, ev) ==
    LET afterCompleted ==
            IF ev.type = Completed /\ db
            THEN UpdateOne(orders, ev.id, "paid")
            ELSE orders
    IN IF ev.type = Failed /\ db
       THEN UpdateMany(afterCompleted, ev.id, "failed")
       ELSE afterCompleted

\* lines 317-333: the two dispatch branches, in program order
HandleEvent(orders, ev) ==
    LET afterCompleted ==
            IF ev.type = Completed /\ db /\ ev.id # None
            THEN UpdateOne(orders, ev.id, "paid")
            ELSE orders
    IN IF ev.type = Failed /\ db /\ ev.id # None
       THEN UpdateMany(afterCompleted, ev.id, "failed")
       ELSE afterCompleted

\* (mutation) without a secret the event is dispatched unverified
WebhookNoSecret_Dispatches(ev) ==
    /\ ~STRIPE_WEBHOOK_SECRET
    /\ order' = HandleEvent(order, ev)
    /\ last' = WebhookResponse(200, "No webhook secret set", NoEvent, 0)
    /\ UNCHANGED <<config, stripeSessions, checkout>>

\* lines 307-308: no signing secret configured
WebhookNoSecret(ev) ==
    /\ ~STRIPE_WEBHOOK_SECRET
    /\ last' = WebhookResponse(200, "No webhook secret set", NoEvent, 0)
    /\ UNCHANGED <<config, order, stripeSessions, checkout>>

\* (mutation) the event is dispatched although its verification failed
WebhookInvalidSignature_Dispatches(ev) ==
    /\ STRIPE_WEBHOOK_SECRET
    /\ order' = HandleEvent(order, ev)
    /\ last' = WebhookResponse(400, "Webhook error", NoEvent, 0)
    /\ UNCHANGED <<config, stripeSessions, checkout>>

\* lines 310-315: construct_event raises (bad signature or malformed body)
WebhookInvalidSignature(ev) ==
    /\ STRIPE_WEBHOOK_SECRET
    /\ last' = WebhookResponse(400, "Webhook error", NoEvent, 0)
    /\ UNCHANGED <<config, order, stripeSessions, checkout>>

\* lines 310-335: the event verifies and is dispatched
WebhookVerified(ev) ==
    /\ STRIPE_WEBHOOK_SECRET
    /\ order' = HandleEvent(order, ev)
    /\ last' = WebhookResponse(200, "received", ev,
                   IF last.op = "webhook" /\ last.status = 200 /\ last.event = ev
                   THEN 2 ELSE 1)
    /\ UNCHANGED <<config, stripeSessions, checkout>>

\* ---------------------------------------------------------------- subscribers
\* An email address is the sequence of its characters.
LowerChar(c) == IF c = "A" THEN "a" ELSE IF c = "B" THEN "b" ELSE c

\* str.lower()
Lower(s) == [i \in 1..Len(s) |-> LowerChar(s[i])]

Emails == {<<"A", "@", "x">>, <<"a", "@", "x">>, <<"B", "@", "x">>}

SubscribePayload == [email : Emails]

SubscribeIdle == [pc |-> "idle", email |-> <<>>, existing |-> FALSE,
                  status |-> 0, message |-> ""]

SubscribeResponse(status, message) ==
    [pc |-> "idle", email |-> <<>>, existing |-> FALSE,
     status |-> status, message |-> message]

\* db["email_subscriber"].find_one({"email": email}), as a truth value
FindOne(coll, email) == \E i \in 1..Len(coll) : coll[i].email = email

\* db["email_subscriber"].insert_one({"email": email, "created_at": ...})
InsertOne(coll, email) == Append(coll, [email |-> email])

\* the calls that have looked the address up, found nothing and will insert
Inserting == { r \in 1..MaxRequests : subscribe[r].pc = "found" /\ ~subscribe[r].existing }

\* lines 209-210
SubscribeNoDatabase(r, payload) ==
    /\ subscribe[r].pc = "idle"
    /\ ~db
    /\ subscribe' = [subscribe EXCEPT ![r] = SubscribeResponse(500, "Database not available")]
    /\ UNCHANGED <<payments, product, email_subscriber, listing>>

\* lines 211-212: lower-case the address and look it up
SubscribeFindOne(r, payload) ==
    /\ subscribe[r].pc = "idle"
    /\ db
    /\ Len(email_subscriber) + Cardinality(Inserting) < MaxSubscribers
    /\ LET email == Lower(payload.email)
       IN subscribe' = [subscribe EXCEPT ![r] =
                           [pc |-> "found", email |-> email,
                            existing |-> FindOne(email_subscriber, email),
                            status |-> 0, message |-> ""]]
    /\ UNCHANGED <<payments, product, email_subscriber, listing>>

\* lines 213-214
SubscribeAlready(r) ==
    /\ subscribe[r].pc = "found"
    /\ subscribe[r].existing
    /\ subscribe' = [subscribe EXCEPT ![r] = SubscribeResponse(200, "Already subscribed")]
    /\ UNCHANGED <<payments, product, email_subscriber, listing>>

\* lines 215-216
SubscribeInsertOne(r) ==
    /\ subscribe[r].pc = "found"
    /\ ~subscribe[r].existing
    /\ email_subscriber' = InsertOne(email_subscriber, subscribe[r].email)
    /\ subscribe' = [subscribe EXCEPT ![r] = SubscribeResponse(200, "")]
    /\ UNCHANGED <<payments, product, listing>>

\* ---------------------------------------------------------------- listing
\* An optional query parameter is a sequence of at most one value.  The
\* category and search filters and the sort order select and arrange
\* documents before skip and limit apply; they are left out, and a page is
\* a slice of the matching documents in collection order.
Unset == <<>>
Some(v) == <<v>>
OrDefault(opt, d) == IF opt = Unset THEN d ELSE opt[1]

Min(a, b) == IF a < b THEN a ELSE b
Max(a, b) == IF a > b THEN a ELSE b

ProductDoc(i) ==
    [title |-> "Tee", price |-> 1000 + 100 * i, currency |-> "usd",
     present |-> TRUE, featured |-> (i % 2 = 1)]

\* the product collections listed: sizes around the default and the largest page
DocCounts == {0, 1, 24, 25, 100, MaxDocs}
ProductDocs(n) == [i \in 1..n |-> ProductDoc(i)]

MOON_PRODUCTS ==
    << [title |-> "Lunar Phase Tee", price |-> 4500, currency |-> "usd",
        present |-> TRUE, featured |-> TRUE],
       [title |-> "Midnight Runner", price |-> 5500, currency |-> "usd",
        present |-> TRUE, featured |-> TRUE],
       [title |-> "Lunar Graphic", price |-> 5000, currency |-> "usd",
        present |-> TRUE, featured |-> TRUE],
       [title |-> "Eclipse Minimal Tee", price |-> 4900, currency |-> "usd",
        present |-> TRUE, featured |-> FALSE] >>

\* the seed products whose create_document succeeds, in order
RECURSIVE Seeded(_, _)
Seeded(i, stored) ==
    IF i > Len(MOON_PRODUCTS) THEN <<>>
    ELSE (IF i \in stored THEN <<MOON_PRODUCTS[i]>> ELSE <<>>) \o Seeded(i + 1, stored)

seed_products_if_empty(coll, stored) ==
    IF coll = <<>> THEN Seeded(1, stored) ELSE coll

\* the outcomes of the seed inserts that matter in the current state
SeedOutcomes ==
    IF product = <<>> THEN SUBSET (1..Len(MOON_PRODUCTS)) ELSE {{}}

Limits == {Unset, Some(-3), Some(0), Some(1), Some(24), Some(100), Some(101), Some(250)}
Offsets == {Unset, Some(-1), Some(0), Some(1), Some(30)}
ListQuery == [limit : Limits, offset : Offsets, featured : {Unset, Some(TRUE), Some(FALSE)}]

NoListing == [status |-> 0, request |-> [limit |-> Unset, offset |-> Unset, featured |-> Unset],
              products |-> <<>>]

\* (mutation) the upper bound of the clamp is dropped
PageSize_NoUpperBound(limit) == Max(1, limit)

\* max(1, min(100, limit))
PageSize(limit) == Max(1, Min(100, limit))

\* db["product"].find(query)
Find(coll, q) ==
    SelectSeq(coll, LAMBDA d : (q.featured = Some(TRUE)) => d.featured)

\* cursor.skip(n) and cursor.limit(n) for n >= 0, n >= 1
Skip(docs, n) == SubSeq(docs, n + 1, Len(docs))
Limit(docs, n) == SubSeq(docs, 1, Min(n, Len(docs)))

\* lines 162-163
ListProductsNoDatabase(q) ==
    /\ ~db
    /\ listing' = [status |-> 500, request |-> q, products |-> <<>>]
    /\ UNCHANGED <<payments, product, email_subscriber, subscribe>>

\* lines 164-190; cursor.skip raises ValueError for a negative offset
ListProducts(q, stored) ==
    /\ db
    /\ product' = seed_products_if_empty(product, stored)
    /\ LET limit == OrDefault(q.limit, 24)
           offset == OrDefault(q.offset, 0)
       IN listing' =
              IF offset < 0
              THEN [status |-> 500, request |-> q, products |-> <<>>]
              ELSE [status |-> 200, request |-> q,
                    products |-> Limit(Skip(Find(product', q), offset), PageSize(limit))]
    /\ UNCHANGED <<payments, email_subscriber, subscribe>>

\* ---------------------------------------------------------------- system
Init ==
    /\ STRIPE_SECRET_KEY \in BOOLEAN
    /\ STRIPE_WEBHOOK_SECRET \in BOOLEAN
    /\ db \in BOOLEAN
    /\ product = Catalog
    /\ order = <<>>
    /\ stripeSessions = <<>>
    /\ checkout = Idle
    /\ last = NoRequest
    /\ email_subscriber = <<>>
    /\ subscribe = [r \in 1..MaxRequests |-> SubscribeIdle]
    /\ listing = NoListing

Next ==
    \/ \E payload \in CreateCheckoutRequest : CheckoutNotConfigured(payload)
    \/ \E payload \in CreateCheckoutRequest : CheckoutNotFound(payload)
    \/ \E payload \in CreateCheckoutRequest, msg \in GatewayMessages :
           CheckoutGatewayError(payload, msg)
    \/ \E payload \in CreateCheckoutRequest, pi \in PaymentIntents :
           CheckoutSessionCreated(payload, pi)
    \/ \E stored \in BOOLEAN : CheckoutPersist(stored)
    \/ \E ev \in Events : WebhookNoSecret(ev)
    \/ \E ev \in Events : WebhookInvalidSignature(ev)
    \/ \E ev \in Events : WebhookVerified(ev)

Spec == Init /\ [][Next]_vars

\* POST /api/subscribe, served by concurrent workers
NextSubscribe ==
    \/ \E r \in 1..MaxRequests, payload \in SubscribePayload : SubscribeNoDatabase(r, payload)
    \/ \E r \in 1..MaxRequests, payload \in SubscribePayload : SubscribeFindOne(r, payload)
    \/ \E r \in 1..MaxRequests : SubscribeAlready(r)
    \/ \E r \in 1..MaxRequests : SubscribeInsertOne(r)

SpecSubscribe == Init /\ [][NextSubscribe]_vars

\* GET /api/products over product collections of several sizes
InitProducts ==
    /\ STRIPE_SECRET_KEY \in BOOLEAN
    /\ STRIPE_WEBHOOK_SECRET \in BOOLEAN
    /\ db \in BOOLEAN
    /\ \E n \in DocCounts : product = ProductDocs(n)
    /\ order = <<>>
    /\ stripeSessions = <<>>
    /\ checkout = Idle
    /\ last = NoRequest
    /\ email_subscriber = <<>>
    /\ subscribe = [r \in 1..MaxRequests |-> SubscribeIdle]
    /\ listing = NoListing

NextProducts ==
    \/ \E q \in ListQuery : ListProductsNoDatabase(q)
    \/ \E q \in ListQuery, stored \in SeedOutcomes : ListProducts(q, stored)

SpecProducts == InitProducts /\ [][NextProducts]_vars

\* ================================================================ claims
Terminal == {"paid", "failed"}

\* the Order(s) a verified event refers to: by session for Completed, by
\* payment intent for Failed; an event without an id refers to none
Targets(ev, o) ==
    /\ ev.id # None
    /\ \/ ev.type = Completed /\ o.stripe_session_id = ev.id
       \/ ev.type = Failed /\ o.stripe_payment_intent_id = ev.id

\* C1: an Order whose payment_status is terminal (paid or failed) never
\* changes to a different status, whatever verified events are handled.
C1_TerminalStatusIsFinal ==
    [][\A i \in 1..Len(order) :
          order[i].payment_status \in Terminal
              => order'[i].payment_status = order[i].payment_status]_vars

\* C2: handling a verified checkout.session.completed event for a session that
\* has an Order leaves that Order paid (on a first delivery and on any repeat)
\* and changes nothing else in the Ledger.
\* (no step of the handler on such an event can end otherwise)
C2_CompletedIsIdempotent ==
    \A ev \in Events :
        (ev.type = Completed /\ \E i \in 1..Len(order) : Targets(ev, order[i]))
        => ~ENABLED (/\ WebhookVerified(ev)
                     /\ ~(/\ Len(order') = Len(order)
                          /\ \A i \in 1..Len(order) :
                                IF Targets(ev, order[i])
                                THEN /\ order'[i] =
                                            [order[i] EXCEPT !.payment_status = "paid"]
                                     /\ (order[i].payment_status = "paid"
                                            => order'[i] = order[i])
                                ELSE order'[i] = order[i]))

\* the same Completed event was handled twice in a row for a stored Order,
\* beside another Order, and the Order is paid
C2_Witness ==
    /\ last.op = "webhook" /\ last.event.type = Completed /\ last.count = 2
    /\ Len(order) = 2
    /\ \E i \in 1..Len(order) :
          /\ Targets(last.event, order[i])
          /\ order[i].payment_status = "paid"

\* C3: with a signing secret configured, a webhook whose verification fails is
\* answered with a client error and no Order changes, whatever the body says.
C3_InvalidSignatureRejected ==
    \A ev \in Events :
        ~ENABLED (/\ WebhookInvalidSignature(ev)
                  /\ ~(/\ last'.op = "webhook"
                       /\ last'.status \in 400..499
                       /\ order' = order))

C3_Witness ==
    /\ STRIPE_WEBHOOK_SECRET
    /\ last.op = "webhook" /\ last.status = 400
    /\ \E i \in 1..Len(order) : order[i].payment_status = "pending"

\* some line of the cart, at any position, names a product that is not stored
HasMissingProduct(payload) ==
    \E i \in 1..Len(payload.items) : ~product[payload.items[i].product_id].present

\* the first part of create_checkout_session run on a given request body
CheckoutRequest(payload) ==
    \/ CheckoutNotConfigured(payload)
    \/ CheckoutNotFound(payload)
    \/ \E msg \in GatewayMessages : CheckoutGatewayError(payload, msg)
    \/ \E pi \in PaymentIntents : CheckoutSessionCreated(payload, pi)

\* C4: a checkout whose cart names a missing product at any position fails with
\* NotFound (404); no Gateway session is created and no Order is persisted.
\* (no step of the handler on such a request can end otherwise)
C4_MissingProductNotFound ==
    \A payload \in CreateCheckoutRequest :
        (STRIPE_SECRET_KEY /\ db /\ HasMissingProduct(payload))
        => ~ENABLED (/\ CheckoutRequest(payload)
                     /\ ~(/\ last'.op = "checkout" /\ last'.status = 404
                          /\ stripeSessions' = stripeSessions
                          /\ order' = order
                          /\ checkout' = checkout))

C4_Witness ==
    /\ last.op = "checkout" /\ last.status = 404
    /\ ~product[last.ref].present
    /\ Len(stripeSessions) = Len(order) /\ Len(order) >= 1

\* C5: when the Gateway's session creation fails, the request fails with a
\* PaymentGatewayError (400) carrying the provider's message and the Ledger is
\* unchanged: no Order is persisted for the request.
C5_GatewayErrorPersistsNothing ==
    \A payload \in CreateCheckoutRequest, msg \in GatewayMessages :
        ~ENABLED (/\ CheckoutGatewayError(payload, msg)
                  /\ ~(/\ last'.op = "checkout" /\ last'.status = 400
                       /\ last'.detail = msg
                       /\ order' = order
                       /\ stripeSessions' = stripeSessions
                       /\ checkout'.pc = "idle"))

C5_Witness ==
    /\ last.op = "checkout" /\ last.status = 400
    /\ last.detail \in GatewayMessages
    /\ Len(order) >= 1

\* sum of price * quantity over the items of a stored Order
RECURSIVE SumOfItems(_, _)
SumOfItems(items, n) ==
    IF n = 0 THEN 0
    ELSE SumOfItems(items, n - 1) + items[n].price * items[n].quantity

\* C6: every Order that CreateCheckout persists is created pending, with one
\* OrderItem per cart line, in cart order, carrying the stored product's title
\* and price and the requested quantity, and with total = sum(price * quantity).
C6_OrderSnapshot ==
    ~ENABLED (/\ \E stored \in BOOLEAN : CheckoutPersist(stored)
              /\ order' # order
              /\ ~(/\ Len(order') = Len(order) + 1
                   /\ \A i \in 1..Len(order) : order'[i] = order[i]
                   /\ LET new == order'[Len(order')]
                          cart == checkout.items
                      IN /\ new.payment_status = "pending"
                         /\ Len(new.items) = Len(cart)
                         /\ \A k \in 1..Len(cart) :
                               /\ new.items[k].product_id = cart[k].product_id
                               /\ new.items[k].quantity = cart[k].quantity
                               /\ new.items[k].title = product[cart[k].product_id].title
                               /\ new.items[k].price = product[cart[k].product_id].price
                         /\ new.total = SumOfItems(new.items, Len(new.items))))

\* the scenario: one line of quantity 2 at 45.00 stored as a pending Order of 90.00
C6_Witness ==
    \E i \in 1..Len(order) :
        /\ order[i].payment_status = "pending"
        /\ order[i].items = <<[product_id |-> 1, title |-> "Lunar Phase Tee",
                               price |-> 4500, quantity |-> 2]>>
        /\ order[i].total = 9000

\* what the Gateway charges for a session: sum of unit_amount * quantity
RECURSIVE GatewayAmount(_)
GatewayAmount(line_items) ==
    IF line_items = <<>> THEN 0
    ELSE Head(line_items).unit_amount * Head(line_items).quantity
             + GatewayAmount(Tail(line_items))

\* C7: for every stored Order, the amount the Gateway computes from the line
\* items of its session equals the Order total in minor units, and each
\* unit_amount is the product's price * 100 with no cent lost.
C7_GatewayAmountMatchesTotal ==
    \A i \in 1..Len(order), j \in 1..Len(stripeSessions) :
        order[i].stripe_session_id = stripeSessions[j].id
        => /\ GatewayAmount(stripeSessions[j].line_items) = order[i].total
           /\ \A k \in 1..Len(order[i].items) :
                 stripeSessions[j].line_items[k].unit_amount = order[i].items[k].price

\* C8: two verified events that target the same Order commute: its final
\* payment_status does not depend on which of the two is applied first.
\* (each handler issues one atomic update, so two concurrent deliveries
\* amount to their two updates applied in either order)
C8_DeliveriesCommute ==
    STRIPE_WEBHOOK_SECRET
    => \A e1 \in Events, e2 \in Events : \A i \in 1..Len(order) :
          (Targets(e1, order[i]) /\ Targets(e2, order[i]))
          => HandleEvent(HandleEvent(order, e1), e2)[i].payment_status
                 = HandleEvent(HandleEvent(order, e2), e1)[i].payment_status

\* C9: a verified Completed or Failed event whose id matches no Order is
\* acknowledged with success and leaves the Ledger as it was.
C9_UnmatchedEventAcknowledged ==
    \A ev \in Events :
        (ev.type \in {Completed, Failed} /\ ~\E i \in 1..Len(order) : Targets(ev, order[i]))
        => ~ENABLED (/\ WebhookVerified(ev)
                     /\ ~(/\ last'.op = "webhook" /\ last'.status = 200
                          /\ order' = order))

C9_Witness ==
    /\ last.op = "webhook" /\ last.status = 200
    /\ last.event.type \in {Completed, Failed} /\ last.event.id # None
    /\ ~\E i \in 1..Len(order) : Targets(last.event, order[i])
    /\ \E i \in 1..Len(order) : order[i].stripe_payment_intent_id # None

\* C10: a verified payment_intent.payment_failed event with intent id I sets
\* failed on every Order whose payment reference is I and leaves the
\* payment_status of every other Order unchanged.
C10_FailedMarksEveryOrderOfIntent ==
    \A ev \in Events :
        (ev.type = Failed /\ ev.id # None)
        => ~ENABLED (/\ WebhookVerified(ev)
                     /\ ~(/\ Len(order') = Len(order)
                          /\ \A i \in 1..Len(order) :
                                IF order[i].stripe_payment_intent_id = ev.id
                                THEN order'[i].payment_status = "failed"
                                ELSE order'[i].payment_status
                                         = order[i].payment_status))

\* two Orders share the intent of the event just handled and both are failed
C10_Witness ==
    /\ last.op = "webhook" /\ last.event.type = Failed /\ last.event.id # None
    /\ Len(order) = 2
    /\ \A i \in 1..Len(order) :
          /\ order[i].stripe_payment_intent_id = last.event.id
          /\ order[i].payment_status = "failed"

\* C11: a verified event of a kind other than checkout.session.completed and
\* payment_intent.payment_failed is acknowledged and leaves every Order unchanged.
C11_OtherKindsChangeNothing ==
    \A ev \in Events :
        (ev.type \notin {Completed, Failed})
        => ~ENABLED (/\ WebhookVerified(ev)
                     /\ ~(/\ last'.op = "webhook" /\ last'.status = 200
                          /\ order' = order))

\* an event of another kind was acknowledged while an Order carries its id
C11_Witness ==
    /\ last.op = "webhook" /\ last.status = 200
    /\ last.event.type = Refunded
    /\ \E i \in 1..Len(order) :
          /\ order[i].stripe_payment_intent_id = last.event.id
          /\ order[i].payment_status = "paid"

\* C12: when the Gateway session was created and the Ledger write fails, the
\* request still answers 200 with the session's url; the session has no Order.
C12_WriteFailureStillReturnsUrl ==
    ~ENABLED (/\ CheckoutPersist(FALSE)
              /\ ~(/\ last'.op = "checkout" /\ last'.status = 200
                   /\ last'.ref = checkout.session.id
                   /\ \E j \in 1..Len(stripeSessions') :
                         stripeSessions'[j].id = checkout.session.id
                   /\ order' = order))

\* the url of a session was returned and no Order refers to that session
C12_Witness ==
    /\ last.op = "checkout" /\ last.status = 200
    /\ \E j \in 1..Len(stripeSessions) : stripeSessions[j].id = last.ref
    /\ ~\E i \in 1..Len(order) : order[i].stripe_session_id = last.ref

\* C14: without a signing secret every inbound event is acknowledged and none
\* is dispatched: no Order is modified, so every Order stays pending.
C14_NoSecretNoDispatch ==
    ~STRIPE_WEBHOOK_SECRET
    => /\ \A i \in 1..Len(order) : order[i].payment_status = "pending"
       /\ \A ev \in Events :
             /\ ENABLED WebhookNoSecret(ev)
             /\ ~ENABLED WebhookVerified(ev)
             /\ ~ENABLED WebhookInvalidSignature(ev)
             /\ ~ENABLED (/\ WebhookNoSecret(ev)
                          /\ ~(/\ last'.op = "webhook" /\ last'.status = 200
                               /\ order' = order))

\* an event was acknowledged without a secret while an Order it names is stored
C14_Witness ==
    /\ ~STRIPE_WEBHOOK_SECRET
    /\ last.op = "webhook" /\ last.status = 200
    /\ Len(order) = 2
    /\ \E i \in 1..Len(order) : order[i].stripe_payment_intent_id # None

\* C16: after an Order is inserted no step deletes it or changes its items,
\* total, currency, session reference or payment reference; the only field a
\* later step writes is payment_status, and only the webhook handler writes it.
C16_OnlyWebhookWritesStatus ==
    [][/\ Len(order') >= Len(order)
       /\ \A i \in 1..Len(order) :
             /\ order'[i] = [order[i] EXCEPT !.payment_status = order'[i].payment_status]
             /\ (order'[i] # order[i] => \E ev \in Events : WebhookVerified(ev))]_vars

\* two Orders whose status the webhook handler has written, otherwise as inserted
C16_Witness ==
    /\ Len(order) = 2
    /\ order[1].payment_status = "paid" /\ order[2].payment_status = "failed"
    /\ \A i \in 1..Len(order) :
          /\ order[i].stripe_session_id = i
          /\ order[i].items # <<>>
          /\ order[i].total = SumOfItems(order[i].items, Len(order[i].items))

\* C17: (the Gateway issuing a distinct id per session) no two Orders have the
\* same session reference, every Order's session reference is the id of a
\* session the Gateway has created, and no step reassigns it.
C17_SessionReferenceUnique ==
    /\ [](/\ \A i \in 1..Len(order), j \in 1..Len(order) :
                i # j => order[i].stripe_session_id # order[j].stripe_session_id
          /\ \A i \in 1..Len(order) :
                \E j \in 1..Len(stripeSessions) :
                    stripeSessions[j].id = order[i].stripe_session_id)
    /\ [][\A i \in 1..Len(order) :
             /\ i <= Len(order')
             /\ order'[i].stripe_session_id = order[i].stripe_session_id]_vars

C17_Witness ==
    /\ Len(order) = 2 /\ Len(stripeSessions) = 2
    /\ order[1].stripe_session_id = stripeSessions[1].id
    /\ order[2].stripe_session_id = stripeSessions[2].id
    /\ order[1].payment_status = "paid"

\* C18: once a verified checkout.session.completed event for a session has been
\* handled and acknowledged, the Order of that session, whenever it is in the
\* Ledger, is not left pending.
\* (stated for the step that follows the acknowledgement)
C18_AcknowledgedSessionNotPending ==
    [][(last.op = "webhook" /\ last.status = 200 /\ last.event.type = Completed)
       => \A i \in 1..Len(order') :
             order'[i].stripe_session_id = last.event.id
                 => order'[i].payment_status # "pending"]_vars

\* C19: an Order stored without a payment reference keeps the (absent)
\* reference its session was created with and is never failed: it is pending
\* or paid.
C19_NoReferenceNeverFailed ==
    \A i \in 1..Len(order) :
        /\ \E j \in 1..Len(stripeSessions) :
              /\ stripeSessions[j].id = order[i].stripe_session_id
              /\ stripeSessions[j].payment_intent = order[i].stripe_payment_intent_id
        /\ (order[i].stripe_payment_intent_id = None
               => order[i].payment_status \in {"pending", "paid"})

\* a payment_failed event was just handled; an Order without reference is paid
C19_Witness ==
    /\ last.op = "webhook" /\ last.status = 200 /\ last.event.type = Failed
    /\ \E i \in 1..Len(order) :
          /\ order[i].stripe_payment_intent_id = None
          /\ order[i].payment_status = "paid"
    /\ \E i \in 1..Len(order) : order[i].payment_status = "failed"

\* C20: the currency recorded on a persisted Order is the currency of the line
\* items sent to the Gateway for its session.
C20_OrderCurrencyIsLineItemCurrency ==
    \A i \in 1..Len(order), j \in 1..Len(stripeSessions) :
        order[i].stripe_session_id = stripeSessions[j].id
        => \A k \in 1..Len(stripeSessions[j].line_items) :
              stripeSessions[j].line_items[k].currency = order[i].currency

\* C13: after any sequence or interleaving of subscribe calls the subscriber
\* store holds at most one record per lower-cased address.
C13_OneRecordPerEmail ==
    \A i \in 1..Len(email_subscriber), j \in 1..Len(email_subscriber) :
        i # j => Lower(email_subscriber[i].email) # Lower(email_subscriber[j].email)

\* C15: the number of products returned is at most max(1, min(100, limit)),
\* a bound within 1..100, and with limit and offset unset the page is the
\* first 24 matching products.
C15_PageSizeClamped ==
    listing.status = 200 =>
        LET q == listing.request
            bound == IF q.limit = Unset THEN 24
                     ELSE IF q.limit[1] < 1 THEN 1
                     ELSE IF q.limit[1] > 100 THEN 100 ELSE q.limit[1]
            matching == Find(product, q)
        IN /\ bound \in 1..100
           /\ Len(listing.products) <= bound
           /\ (q.limit = Unset /\ q.offset = Unset
                  => listing.products = SubSeq(matching, 1, Min(24, Len(matching))))

\* a limit above 100 was asked of a collection holding more, and 100 came back
C15_Witness ==
    /\ listing.status = 200
    /\ listing.request.limit = Some(250)
    /\ Len(product) > 100
    /\ Len(listing.products) = 100

====
